---- MODULE Spec2Model ----
(* Multi-tenant data-source gateway of InsightIQEngine: the in-memory storage, *)
(* the tenant isolation guard, the organization-scoped data-source routes and  *)
(* the per-engine connectors, as one state machine.  One HTTP request is in    *)
(* flight at a time; every await of the source is a step of the machine.       *)
EXTENDS Integers, Sequences, FiniteSets, TLC

\* ------------------------------------------------------------------ bounds
MaxUsers == 2
MaxOrgs == 2
MaxDs == 1
MaxTables == 2
MaxRows == 1
MaxMembers == 3
MaxCols == 2
MaxQueries == 2
MaxIds == 3
MaxStored == 1

\* ------------------------------------------------------------ JS values
NaN == -1
Null == -2
NoUser == 0
Absent == "absent"

UnsupportedMsg == "Unsupported database type"
ConnectError == "connect error"
QueryError == "query error"
EndError == "end error"

SupportedTypes == {"postgresql", "mysql"}
TypeInputs == {"postgresql", "mysql", "oracle"}

\* organization ids as they arrive in a path segment, a query string or a body
PathOrgInputs == {ToString(n) : n \in 1..MaxOrgs} \cup {"abc"}
BodyOrgInputs == {ToString(n) : n \in 1..MaxOrgs} \cup {Absent}
QueryOrgInputs == {ToString(n) : n \in 0..MaxOrgs} \cup {"abc", Absent}

Routes == {"list", "create", "fetch", "delete", "schema", "execute", "nlq"}
IdRoutes == {"fetch", "delete", "schema", "execute", "nlq"}

\* the routes of the registerRoutes without a tenant path segment
LegacyRoutes == {"legacyList", "legacyCreate", "legacyFetch", "legacyDelete",
                 "legacySchema", "legacyExecute", "legacyNlq"}
LegacyIdRoutes == LegacyRoutes \ {"legacyList", "legacyCreate"}

\* the member-management routes and what their requests carry: the target
\* user (0: none named) and the role of the body
MemberRoutes == {"addMember", "updateMember", "removeMember"}
MemberOrgInputs == {ToString(n) : n \in 1..MaxOrgs}
Roles == {"owner", "admin", "member"}
RoleInputs == Roles \cup {"guest", Absent}

VARIABLES
    userIdCounter, organizationIdCounter, organizationMembers,
    dataSources, dataSourceIdCounter,
    organizations, savedQueries, savedQueryIdCounter,
    dashboards, dashboardIdCounter, dashboardItems, dashboardItemIdCounter,
    pc, req, res, calls, reqOrganization, reqOrgRole,
    op, opDs, cpc, client, openConns, driverLog, pending, result,
    tableCount, tables, catalog, schemaColumns

\* the maps of saved queries, dashboards and dashboard items and their id
\* counters; a map is the set of its records
contentVars == <<savedQueries, savedQueryIdCounter, dashboards,
                 dashboardIdCounter, dashboardItems, dashboardItemIdCounter>>
storageVars == <<userIdCounter, organizationIdCounter, organizationMembers,
                 dataSources, dataSourceIdCounter, organizations,
                 contentVars>>
requestVars == <<pc, req, res, calls, reqOrganization, reqOrgRole>>
connVars == <<op, opDs, cpc, client, openConns, driverLog, pending, result,
              tableCount, tables, catalog, schemaColumns>>
vars == <<storageVars, requestVars, connVars>>

\* --------------------------------------------------------------- helpers
ParseInt(s) ==
    IF \E n \in 0..MaxOrgs : ToString(n) = s
    THEN CHOOSE n \in 0..MaxOrgs : ToString(n) = s
    ELSE NaN

Truthy(s) == s # Absent

Falsy(n) == n = Null \/ n = 0 \/ n = NaN

StrictNe(a, b) == a = NaN \/ b = NaN \/ a # b

\* a DataSource keeps the fields the organization-scoped routes and the
\* connectors read: the owning organization and the engine type
NoDs == [organizationId |-> 0, type |-> "none"]

NoReq == [route |-> "none", caller |-> NoUser, pathOrg |-> Absent,
          bodyOrg |-> Absent, queryOrg |-> Absent, id |-> 0,
          payload |-> FALSE, type |-> "none", valid |-> FALSE,
          userId |-> 0, role |-> Absent]

NoRes == [status |-> 0, body |-> "none", data |-> {}]

NoCompletion == [kind |-> "none", success |-> FALSE, error |-> "",
                 columns |-> <<>>, rows |-> <<>>, rowCount |-> 0,
                 tables |-> <<>>]

Raise(e) == [NoCompletion EXCEPT !.kind = "raise", !.error = e]

TestSuccess == [NoCompletion EXCEPT !.kind = "return", !.success = TRUE]

TestFailure(e) == [NoCompletion EXCEPT !.kind = "return", !.error = e]

QueryResult(n) == [NoCompletion EXCEPT !.kind = "return", !.success = TRUE,
                   !.columns = <<"col">>,
                   !.rows = [i \in 1..n |-> i], !.rowCount = n]

ErrorQueryResult(e) == [NoCompletion EXCEPT !.kind = "return", !.error = e]

SchemaResult(ts) == [NoCompletion EXCEPT !.kind = "return", !.success = TRUE,
                     !.tables = ts]

\* the key constraints of one base table "t" of the external database: its
\* columns are the ordinal positions 1..MaxCols, pk the columns of its primary
\* key, fks its foreign keys, each the set of its columns, column c referencing
\* column c of table "r"
NoCatalog == [type |-> "none", pk |-> {}, fks |-> {}]

\* --------------------------------------------------------------- storage
GetOrganizationMember(organizationId, userId) ==
    IF <<organizationId, userId>> \in DOMAIN organizationMembers
    THEN organizationMembers[<<organizationId, userId>>]
    ELSE "none"

GetOrganization(id) ==
    IF id \in organizations THEN id ELSE Null

GetDataSource(id) ==
    IF id \in DOMAIN dataSources THEN dataSources[id] ELSE NoDs

GetAllDataSources(organizationId) ==
    {i \in DOMAIN dataSources :
        /\ dataSources[i] # NoDs
        /\ dataSources[i].organizationId = organizationId}

Init ==
    /\ userIdCounter = 2
    /\ organizationIdCounter = 2
    /\ organizationMembers =
         [k \in (1..MaxOrgs) \X (1..MaxUsers) |->
            IF k = <<1, 1>> THEN "owner" ELSE "none"]
    /\ dataSources = [i \in 1..MaxDs |-> NoDs]
    /\ dataSourceIdCounter = 1
    /\ organizations = {1}
    /\ savedQueries = {}
    /\ savedQueryIdCounter = 1
    /\ dashboards = {}
    /\ dashboardIdCounter = 1
    /\ dashboardItems = {}
    /\ dashboardItemIdCounter = 1
    /\ pc = "idle"
    /\ req = NoReq
    /\ res = NoRes
    /\ calls = {}
    /\ reqOrganization = Null
    /\ reqOrgRole = "none"
    /\ op = "none"
    /\ opDs = NoDs
    /\ cpc = "none"
    /\ client = "none"
    /\ openConns = 0
    /\ driverLog = <<>>
    /\ pending = NoCompletion
    /\ result = NoCompletion
    /\ tableCount = 0
    /\ tables = <<>>
    /\ catalog = NoCatalog
    /\ schemaColumns = <<>>

\* POST /api/register: a new user, a personal organization, the user as owner
Register ==
    /\ pc = "idle"
    /\ userIdCounter <= MaxUsers
    /\ organizationIdCounter <= MaxOrgs
    /\ userIdCounter' = userIdCounter + 1
    /\ organizationIdCounter' = organizationIdCounter + 1
    /\ organizationMembers' =
         [organizationMembers EXCEPT
            ![<<organizationIdCounter, userIdCounter>>] = "owner"]
    /\ organizations' = organizations \cup {organizationIdCounter}
    /\ UNCHANGED <<dataSources, dataSourceIdCounter, contentVars,
                   requestVars, connVars>>

\* ------------------------------------------------------- request plumbing
Respond(status, body, data) ==
    /\ res' = [status |-> status, body |-> body, data |-> data]
    /\ pc' = "done"

StartConnector(o, ds) ==
    /\ op' = o
    /\ opDs' = ds
    /\ cpc' = "dispatch"
    /\ client' = "none"
    /\ driverLog' = <<>>
    /\ pending' = NoCompletion
    /\ result' = NoCompletion
    /\ tableCount' = 0
    /\ tables' = <<>>
    /\ UNCHANGED <<openConns, catalog, schemaColumns>>

\* a request arrives: session (caller), path, query string and body
Receive ==
    /\ pc = "idle"
    /\ \E route \in Routes,
          caller \in {NoUser} \cup (1..(userIdCounter - 1)),
          pathOrg \in PathOrgInputs,
          bodyOrg \in BodyOrgInputs,
          queryOrg \in QueryOrgInputs :
        /\ route = "create" => dataSourceIdCounter <= MaxDs
        /\ \E id \in (IF route \in IdRoutes THEN 1..MaxDs ELSE {0}),
              payload \in (IF route \in {"execute", "nlq"}
                           THEN BOOLEAN ELSE {FALSE}),
              type \in (IF route = "create" THEN TypeInputs ELSE {"none"}),
              valid \in (IF route = "create" THEN BOOLEAN ELSE {TRUE}) :
            req' = [route |-> route, caller |-> caller, pathOrg |-> pathOrg,
                    bodyOrg |-> bodyOrg, queryOrg |-> queryOrg, id |-> id,
                    payload |-> payload, type |-> type, valid |-> valid,
                    userId |-> 0, role |-> Absent]
    /\ pc' = "guard"
    /\ res' = NoRes
    /\ calls' = {}
    /\ reqOrganization' = Null
    /\ reqOrgRole' = "none"
    /\ UNCHANGED <<storageVars, connVars>>

GetOrganizationIdFromRequest(r) ==
    IF Truthy(r.bodyOrg) THEN ParseInt(r.bodyOrg)
    ELSE IF Truthy(r.queryOrg) THEN ParseInt(r.queryOrg)
    ELSE IF Truthy(r.pathOrg) THEN ParseInt(r.pathOrg)
    ELSE Null

\* the roleCheckMiddleware(requiredRoles) a route is registered with, {} when
\* it has none
RequiredRoles(route) ==
    CASE route \in {"delete", "addMember", "removeMember"} ->
             {"owner", "admin"}
      [] route = "updateMember" -> {"owner"}
      [] OTHER -> {}

AfterGuard(route) ==
    IF RequiredRoles(route) # {} THEN "role" ELSE "handler"

TenantIsolationMiddleware ==
    /\ pc = "guard"
    /\ LET organizationId == GetOrganizationIdFromRequest(req)
           membership == GetOrganizationMember(organizationId, req.caller)
       IN  IF req.caller = NoUser
           THEN /\ pc' = AfterGuard(req.route)
                /\ UNCHANGED <<res, calls, reqOrganization, reqOrgRole>>
           ELSE IF Falsy(organizationId)
           THEN /\ pc' = AfterGuard(req.route)
                /\ UNCHANGED <<res, calls, reqOrganization, reqOrgRole>>
           ELSE IF membership = "none"
           THEN /\ Respond(403, "error", {})
                /\ calls' = calls \cup {"member"}
                /\ UNCHANGED <<reqOrganization, reqOrgRole>>
           ELSE /\ reqOrganization' = GetOrganization(organizationId)
                /\ reqOrgRole' = membership
                /\ calls' = calls \cup {"member"}
                /\ pc' = AfterGuard(req.route)
                /\ UNCHANGED res
    /\ UNCHANGED <<req, storageVars, connVars>>

RoleAllowed_Any(role, requiredRoles) == TRUE

RoleAllowed(role, requiredRoles) == role \in requiredRoles

\* the 403 body names the required roles
RoleCheckMiddleware ==
    /\ pc = "role"
    /\ IF req.caller = NoUser
       THEN Respond(401, "error", {})
       ELSE IF reqOrganization = Null \/ reqOrgRole = "none"
       THEN Respond(400, "error", {})
       ELSE IF RoleAllowed(reqOrgRole, RequiredRoles(req.route))
       THEN pc' = "handler" /\ UNCHANGED res
       ELSE Respond(403, "requiredRoles", RequiredRoles(req.route))
    /\ UNCHANGED <<req, calls, reqOrganization, reqOrgRole, storageVars,
                   connVars>>

OwnershipStatus_OrganizationFirst(r) ==
    LET dataSource == GetDataSource(r.id)
        orgId == ParseInt(r.pathOrg)
    IN  IF StrictNe(dataSource.organizationId, orgId) THEN 403
        ELSE IF dataSource = NoDs THEN 404
        ELSE 0

\* 404 / 403 of the handlers that take a data-source id; 0 when both pass
OwnershipStatus(r) ==
    LET dataSource == GetDataSource(r.id)
        orgId == ParseInt(r.pathOrg)
    IN  IF dataSource = NoDs THEN 404
        ELSE IF StrictNe(dataSource.organizationId, orgId) THEN 403
        ELSE 0

InsertDataSourceSchemaParse(r, orgId) == r.valid /\ orgId # NaN

HandleList ==
    /\ pc = "handler" /\ req.route = "list"
    /\ Respond(200, "list", GetAllDataSources(ParseInt(req.pathOrg)))
    /\ calls' = calls \cup {"dsRead"}
    /\ UNCHANGED <<req, reqOrganization, reqOrgRole, storageVars, connVars>>

HandleCreate ==
    /\ pc = "handler" /\ req.route = "create"
    /\ LET orgId == ParseInt(req.pathOrg)
       IN  IF req.caller = NoUser
           THEN /\ Respond(500, "error", {})
                /\ UNCHANGED <<calls, connVars>>
           ELSE IF ~InsertDataSourceSchemaParse(req, orgId)
           THEN /\ Respond(400, "error", {})
                /\ UNCHANGED <<calls, connVars>>
           ELSE /\ StartConnector("test",
                     [organizationId |-> orgId, type |-> req.type])
                /\ calls' = calls \cup {"connector"}
                /\ pc' = "connector"
                /\ UNCHANGED res
    /\ UNCHANGED <<req, reqOrganization, reqOrgRole, storageVars>>

HandleFetch ==
    /\ pc = "handler" /\ req.route = "fetch"
    /\ LET st == OwnershipStatus(req)
       IN  IF st # 0 THEN Respond(st, "error", {})
           ELSE Respond(200, "ds", {req.id})
    /\ calls' = calls \cup {"dsRead"}
    /\ UNCHANGED <<req, reqOrganization, reqOrgRole, storageVars, connVars>>

HandleDelete ==
    /\ pc = "handler" /\ req.route = "delete"
    /\ LET st == OwnershipStatus(req)
       IN  IF st # 0
           THEN Respond(st, "error", {}) /\ UNCHANGED dataSources
           ELSE /\ dataSources' = [dataSources EXCEPT ![req.id] = NoDs]
                /\ Respond(204, "empty", {})
    /\ calls' = calls \cup {"dsRead"}
    /\ UNCHANGED <<req, reqOrganization, reqOrgRole, userIdCounter,
                   organizationIdCounter, organizationMembers,
                   dataSourceIdCounter, connVars,
                   organizations, contentVars>>

HandleSchema ==
    /\ pc = "handler" /\ req.route = "schema"
    /\ LET st == OwnershipStatus(req)
       IN  IF st # 0
           THEN /\ Respond(st, "error", {})
                /\ calls' = calls \cup {"dsRead"}
                /\ UNCHANGED connVars
           ELSE /\ StartConnector("schema", GetDataSource(req.id))
                /\ calls' = calls \cup {"dsRead", "connector"}
                /\ pc' = "connector"
                /\ UNCHANGED res
    /\ UNCHANGED <<req, reqOrganization, reqOrgRole, storageVars>>

HandleExecute ==
    /\ pc = "handler" /\ req.route = "execute"
    /\ LET st == OwnershipStatus(req)
       IN  IF st # 0
           THEN /\ Respond(st, "error", {})
                /\ calls' = calls \cup {"dsRead"}
                /\ UNCHANGED connVars
           ELSE IF ~req.payload
           THEN /\ Respond(400, "error", {})
                /\ calls' = calls \cup {"dsRead"}
                /\ UNCHANGED connVars
           ELSE /\ StartConnector("execute", GetDataSource(req.id))
                /\ calls' = calls \cup {"dsRead", "connector"}
                /\ pc' = "connector"
                /\ UNCHANGED res
    /\ UNCHANGED <<req, reqOrganization, reqOrgRole, storageVars>>

HandleNlq ==
    /\ pc = "handler" /\ req.route = "nlq"
    /\ LET st == OwnershipStatus(req)
       IN  IF st # 0
           THEN /\ Respond(st, "error", {})
                /\ calls' = calls \cup {"dsRead"}
                /\ UNCHANGED connVars
           ELSE IF ~req.payload
           THEN /\ Respond(400, "error", {})
                /\ calls' = calls \cup {"dsRead"}
                /\ UNCHANGED connVars
           ELSE /\ StartConnector("schema", GetDataSource(req.id))
                /\ calls' = calls \cup {"dsRead", "connector"}
                /\ pc' = "connector"
                /\ UNCHANGED res
    /\ UNCHANGED <<req, reqOrganization, reqOrgRole, storageVars>>

\* ------------------------------------------------------------ connectors
Engine_DefaultPostgres(type) ==
    CASE type = "mysql" -> "mysql"
      [] OTHER -> "pg"

Engine(type) ==
    CASE type = "postgresql" -> "pg"
      [] type = "mysql" -> "mysql"
      [] OTHER -> "unsupported"

TestCatch_Rethrow(c) == c

\* catch block of testDataSourceConnection
TestCatch(c) ==
    IF c.kind = "raise" THEN TestFailure(c.error) ELSE c

FetchSchemaCatch_Swallow(c) ==
    IF c.kind = "raise" THEN SchemaResult(<<>>) ELSE c

\* catch block of fetchSchemaFromDataSource: logs and rethrows
FetchSchemaCatch(c) == c

ExecuteQueryCatch_Rethrow(c) == c

\* catch block of executeQuery
ExecuteQueryCatch(c) ==
    IF c.kind = "raise" THEN ErrorQueryResult(c.error) ELSE c

Outer(o, c) ==
    CASE o = "test" -> TestCatch(c)
      [] o = "schema" -> FetchSchemaCatch(c)
      [] OTHER -> ExecuteQueryCatch(c)

ExitTo_SkipFinallyOnError(engine, step, ok) ==
    IF ~ok THEN "ret" ELSE "finally"

\* where a step of an engine function leaves to when it completes the try
\* block or fails: the finally block, except mysql.createConnection, which is
\* called before the try block is entered
ExitTo(engine, step, ok) ==
    IF engine = "mysql" /\ step = "connect" THEN "ret" ELSE "finally"

\* completion of a failed step: the test functions catch inside their try
\* block, the others let the error propagate
Failure(o, engine, step, e) ==
    IF o = "test" /\ ~(engine = "mysql" /\ step = "connect")
    THEN TestFailure(e) ELSE Raise(e)

Log(call, ok) == Append(driverLog, [call |-> call, ok |-> ok])

\* the engine function is left with completion c
Leave(step, ok, c) ==
    IF ExitTo(Engine(opDs.type), step, ok) = "ret"
    THEN /\ cpc' = "ret"
         /\ result' = Outer(op, c)
         /\ UNCHANGED pending
    ELSE /\ cpc' = "finally"
         /\ pending' = c
         /\ UNCHANGED result

\* the switch on dataSource.type; for postgresql `new Client(...)`
Dispatch ==
    /\ cpc = "dispatch"
    /\ CASE Engine(opDs.type) = "pg" ->
              /\ client' = "created"
              /\ cpc' = "connect"
              /\ UNCHANGED result
         [] Engine(opDs.type) = "mysql" ->
              /\ cpc' = "connect"
              /\ UNCHANGED <<client, result>>
         [] OTHER ->
              /\ result' = IF op = "test" THEN TestFailure(UnsupportedMsg)
                           ELSE Outer(op, Raise(UnsupportedMsg))
              /\ cpc' = "ret"
              /\ UNCHANGED client
    /\ UNCHANGED <<op, opDs, openConns, driverLog, pending, tableCount,
                   tables, catalog, schemaColumns, storageVars, requestVars>>

FirstQuery_SkipListing(o) == IF o = "schema" THEN "columns" ELSE "query"

\* the first statement an engine function issues on the opened connection
FirstQuery(o) == IF o = "schema" THEN "tables" ELSE "query"

\* client.connect() / mysql.createConnection()
Connect ==
    /\ cpc = "connect"
    /\ \E ok \in BOOLEAN :
        /\ driverLog' = Log("connect", ok)
        /\ IF ok
           THEN /\ client' = "open"
                /\ openConns' = openConns + 1
                /\ cpc' = FirstQuery(op)
                /\ UNCHANGED <<pending, result>>
           ELSE /\ Leave("connect", FALSE,
                         Failure(op, Engine(opDs.type), "connect",
                                 ConnectError))
                /\ UNCHANGED <<client, openConns>>
    /\ UNCHANGED <<op, opDs, tableCount, tables, catalog, schemaColumns,
                   storageVars, requestVars>>

\* the probe `SELECT 1` of the test functions, the statement of the execute
\* functions
Query ==
    /\ cpc = "query"
    /\ \E ok \in BOOLEAN,
          n \in (IF op = "execute" THEN 0..MaxRows ELSE {0}) :
        /\ ~ok => n = 0
        /\ driverLog' = Log("query", ok)
        /\ Leave("query", ok,
                 IF ~ok
                 THEN Failure(op, Engine(opDs.type), "query", QueryError)
                 ELSE IF op = "test" THEN TestSuccess
                 ELSE QueryResult(n))
    /\ UNCHANGED <<op, opDs, client, openConns, tableCount, tables,
                   catalog, schemaColumns, storageVars, requestVars>>

\* the table-listing query of the schema functions
ListTables ==
    /\ cpc = "tables"
    /\ \E ok \in BOOLEAN, n \in 0..MaxTables :
        /\ ~ok => n = 0
        /\ driverLog' = Log("tables", ok)
        /\ tableCount' = n
        /\ IF ok /\ n > 0
           THEN cpc' = "columns" /\ UNCHANGED <<pending, result>>
           ELSE Leave("tables", ok,
                      IF ok THEN SchemaResult(<<>>)
                      ELSE Failure(op, Engine(opDs.type), "tables",
                                   QueryError))
    /\ UNCHANGED <<op, opDs, client, openConns, tables, catalog,
                   schemaColumns, storageVars, requestVars>>

\* one per-table column query and the push of its TableSchema
ColumnsQuery ==
    /\ cpc = "columns"
    /\ \E ok \in BOOLEAN :
        /\ driverLog' = Log("columns", ok)
        /\ IF ok
           THEN LET ts == Append(tables, Len(tables) + 1)
                IN  /\ tables' = ts
                    /\ IF Len(ts) = tableCount
                       THEN Leave("columns", TRUE, SchemaResult(ts))
                       ELSE UNCHANGED <<cpc, pending, result>>
           ELSE /\ Leave("columns", FALSE,
                         Failure(op, Engine(opDs.type), "columns",
                                 QueryError))
                /\ UNCHANGED tables
    /\ UNCHANGED <<op, opDs, client, openConns, tableCount, catalog,
                   schemaColumns, storageVars, requestVars>>

\* the finally block: client.end() / connection.end(); the handle is released
\* whether or not end() reports an error
End ==
    /\ cpc = "finally"
    /\ \E ok \in BOOLEAN :
        /\ driverLog' = Log("end", ok)
        /\ result' = Outer(op, IF ok THEN pending ELSE Raise(EndError))
    /\ client' = "closed"
    /\ openConns' = IF client = "open" THEN openConns - 1 ELSE openConns
    /\ cpc' = "ret"
    /\ UNCHANGED <<op, opDs, pending, tableCount, tables, catalog,
                   schemaColumns, storageVars, requestVars>>

ResetConnector ==
    /\ op' = "none"
    /\ opDs' = NoDs
    /\ cpc' = "none"
    /\ client' = "none"
    /\ driverLog' = <<>>
    /\ pending' = NoCompletion
    /\ result' = NoCompletion
    /\ tableCount' = 0
    /\ tables' = <<>>
    /\ UNCHANGED <<openConns, catalog, schemaColumns>>

\* ------------------------------------------- handlers, after the connector
ConnectionAccepted_Always(r) == TRUE

ConnectionAccepted(r) == r.success

AfterTest ==
    /\ pc = "connector" /\ cpc = "ret" /\ req.route = "create"
    /\ IF result.kind = "raise"
       THEN /\ Respond(500, "error", {})
            /\ UNCHANGED <<dataSources, dataSourceIdCounter>>
       ELSE IF ~ConnectionAccepted(result)
       THEN /\ Respond(400, "error", {})
            /\ UNCHANGED <<dataSources, dataSourceIdCounter>>
       ELSE /\ dataSources' =
                 [dataSources EXCEPT ![dataSourceIdCounter] = opDs]
            /\ dataSourceIdCounter' = dataSourceIdCounter + 1
            /\ Respond(201, "ds", {dataSourceIdCounter})
    /\ UNCHANGED <<req, calls, reqOrganization, reqOrgRole, userIdCounter,
                   organizationIdCounter, organizationMembers, connVars,
                   organizations, contentVars>>

AfterSchema ==
    /\ pc = "connector" /\ cpc = "ret" /\ req.route = "schema"
    /\ IF result.kind = "raise"
       THEN Respond(500, "error", {})
       ELSE Respond(200, "schema", {})
    /\ UNCHANGED <<req, calls, reqOrganization, reqOrgRole, storageVars,
                   connVars>>

AfterExecute ==
    /\ pc = "connector" /\ cpc = "ret" /\ req.route = "execute"
    /\ IF result.kind = "raise"
       THEN Respond(500, "error", {})
       ELSE Respond(200, "result", {})
    /\ UNCHANGED <<req, calls, reqOrganization, reqOrgRole, storageVars,
                   connVars>>

AfterNlqSchema_CallAiAnyway ==
    /\ pc = "connector" /\ cpc = "ret" /\ req.route = "nlq"
    /\ pc' = "ai" /\ UNCHANGED res
    /\ UNCHANGED <<req, calls, reqOrganization, reqOrgRole, storageVars,
                   connVars>>

AfterNlqSchema ==
    /\ pc = "connector" /\ cpc = "ret" /\ req.route = "nlq"
    /\ IF result.kind = "raise"
       THEN Respond(500, "error", {})
       ELSE pc' = "ai" /\ UNCHANGED res
    /\ UNCHANGED <<req, calls, reqOrganization, reqOrgRole, storageVars,
                   connVars>>

\* convertNaturalLanguageToSQL(question, schema)
AiConvert ==
    /\ pc = "ai"
    /\ \E ok \in BOOLEAN :
        IF ok THEN Respond(200, "sql", {}) ELSE Respond(500, "error", {})
    /\ calls' = calls \cup {"ai"}
    /\ UNCHANGED <<req, reqOrganization, reqOrgRole, storageVars, connVars>>

\* the response is sent; the request-scoped state is discarded
Finish ==
    /\ pc = "done"
    /\ pc' = "idle"
    /\ req' = NoReq
    /\ res' = NoRes
    /\ calls' = {}
    /\ reqOrganization' = Null
    /\ reqOrgRole' = "none"
    /\ ResetConnector
    /\ UNCHANGED storageVars

Next ==
    \/ Register
    \/ Receive
    \/ TenantIsolationMiddleware
    \/ RoleCheckMiddleware
    \/ HandleList
    \/ HandleCreate
    \/ HandleFetch
    \/ HandleDelete
    \/ HandleSchema
    \/ HandleExecute
    \/ HandleNlq
    \/ Dispatch
    \/ Connect
    \/ Query
    \/ ListTables
    \/ ColumnsQuery
    \/ End
    \/ AfterTest
    \/ AfterSchema
    \/ AfterExecute
    \/ AfterNlqSchema
    \/ AiConvert
    \/ Finish

Spec == Init /\ [][Next]_vars

\* ------------------- the three exported connector functions, called directly
DirectCall ==
    /\ pc = "idle"
    /\ \E o \in {"test", "schema", "execute"}, type \in TypeInputs :
        StartConnector(o, [organizationId |-> 1, type |-> type])
    /\ pc' = "direct"
    /\ UNCHANGED <<req, res, calls, reqOrganization, reqOrgRole, storageVars>>

DirectReturn ==
    /\ pc = "direct" /\ cpc = "ret"
    /\ pc' = "idle"
    /\ ResetConnector
    /\ UNCHANGED <<req, res, calls, reqOrganization, reqOrgRole, storageVars>>

ConnNext ==
    \/ DirectCall
    \/ Dispatch
    \/ Connect
    \/ Query
    \/ ListTables
    \/ ColumnsQuery
    \/ End
    \/ DirectReturn

ConnSpec == Init /\ [][ConnNext]_vars

\* ------------------------------ a host that stops answering (unreachable)
\* the timeout, in ms, the engine functions arm for a step of an operation; 0
\* when they arm none: only the clients of the test functions are created
\* with connectionTimeoutMillis / connectTimeout, and no statement has one
Timeout(o, step) == IF o = "test" /\ step = "connect" THEN 5000 ELSE 0

\* the awaited driver call is never answered and no timer ends the wait
NoAnswer ==
    /\ cpc \in {"connect", "query", "tables", "columns"}
    /\ Timeout(op, cpc) = 0
    /\ cpc' = "waiting"
    /\ UNCHANGED <<op, opDs, client, openConns, driverLog, pending, result,
                   tableCount, tables, catalog, schemaColumns, storageVars,
                   requestVars>>

LiveNext ==
    \/ DirectCall
    \/ Dispatch
    \/ Connect
    \/ Query
    \/ ListTables
    \/ ColumnsQuery
    \/ NoAnswer
    \/ End
    \/ DirectReturn

\* every call that is answered, or whose timer fires, continues
LiveSpec == Init /\ [][LiveNext]_vars /\ WF_vars(LiveNext)

\* ------------------------------------------- the member-management routes
MemberCount ==
    Cardinality({k \in DOMAIN organizationMembers :
                    organizationMembers[k] # "none"})

ReceiveMember ==
    /\ pc = "idle"
    /\ \/ /\ \E route \in MemberRoutes,
                caller \in {NoUser} \cup (1..(userIdCounter - 1)),
                pathOrg \in MemberOrgInputs,
                bodyOrg \in BodyOrgInputs,
                queryOrg \in QueryOrgInputs,
                userId \in 0..MaxUsers :
              /\ route = "addMember" => MemberCount < MaxMembers
              /\ \E role \in (IF route = "removeMember" THEN {Absent}
                              ELSE RoleInputs) :
                  req' = [NoReq EXCEPT !.route = route, !.caller = caller,
                                       !.pathOrg = pathOrg,
                                       !.bodyOrg = bodyOrg,
                                       !.queryOrg = queryOrg,
                                       !.userId = userId,
                                       !.role = role, !.valid = TRUE]
          /\ pc' = "guard"
       \/ /\ organizationIdCounter <= MaxOrgs
          /\ MemberCount < MaxMembers
          /\ \E caller \in {NoUser} \cup (1..(userIdCounter - 1)),
                valid \in BOOLEAN :
              req' = [NoReq EXCEPT !.route = "createOrganization",
                                   !.caller = caller, !.valid = valid]
          /\ pc' = "handler"
    /\ res' = NoRes
    /\ calls' = {}
    /\ reqOrganization' = Null
    /\ reqOrgRole' = "none"
    /\ UNCHANGED <<storageVars, connVars>>

\* storage.getUserByUsername(username) of the add-member body
GetUserByUsername(userId) ==
    IF userId \in 1..(userIdCounter - 1) THEN userId ELSE Null

InsertOrganizationSchemaParse(r) == r.valid

\* POST /api/organizations, a path the isolation guard is not mounted on
HandleCreateOrganization ==
    /\ pc = "handler" /\ req.route = "createOrganization"
    /\ IF req.caller = NoUser
       THEN /\ Respond(401, "error", {})
            /\ UNCHANGED <<organizations, organizationIdCounter,
                           organizationMembers>>
       ELSE IF ~InsertOrganizationSchemaParse(req)
       THEN /\ Respond(400, "error", {})
            /\ UNCHANGED <<organizations, organizationIdCounter,
                           organizationMembers>>
       ELSE /\ organizations' = organizations \cup {organizationIdCounter}
            /\ organizationIdCounter' = organizationIdCounter + 1
            /\ organizationMembers' =
                 [organizationMembers EXCEPT
                    ![<<organizationIdCounter, req.caller>>] = "owner"]
            /\ Respond(201, "organization", {organizationIdCounter})
    /\ UNCHANGED <<req, calls, reqOrganization, reqOrgRole, userIdCounter,
                   dataSources, dataSourceIdCounter, contentVars, connVars>>

HandleAddMember ==
    /\ pc = "handler" /\ req.route = "addMember"
    /\ LET orgId == ParseInt(req.pathOrg)
           user == GetUserByUsername(req.userId)
       IN  IF req.userId = 0
           THEN Respond(400, "error", {}) /\ UNCHANGED organizationMembers
           ELSE IF user = Null
           THEN Respond(404, "error", {}) /\ UNCHANGED organizationMembers
           ELSE IF GetOrganizationMember(orgId, user) # "none"
           THEN Respond(400, "error", {}) /\ UNCHANGED organizationMembers
           ELSE /\ organizationMembers' =
                     [organizationMembers EXCEPT ![<<orgId, user>>] =
                        IF req.role = Absent THEN "member" ELSE req.role]
                /\ Respond(201, "member", {user})
    /\ UNCHANGED <<req, calls, reqOrganization, reqOrgRole, userIdCounter,
                   organizationIdCounter, dataSources, dataSourceIdCounter,
                   connVars,
                   organizations, contentVars>>

HandleUpdateMember_NoOwnerCheck ==
    /\ pc = "handler" /\ req.route = "updateMember"
    /\ LET orgId == ParseInt(req.pathOrg)
           member == GetOrganizationMember(orgId, req.userId)
       IN  IF req.role = Absent
           THEN Respond(400, "error", {}) /\ UNCHANGED organizationMembers
           ELSE IF member = "none"
           THEN Respond(404, "error", {}) /\ UNCHANGED organizationMembers
           ELSE /\ organizationMembers' =
                     [organizationMembers EXCEPT
                        ![<<orgId, req.userId>>] = req.role]
                /\ Respond(200, "member", {req.userId})
    /\ UNCHANGED <<req, calls, reqOrganization, reqOrgRole, userIdCounter,
                   organizationIdCounter, dataSources, dataSourceIdCounter,
                   connVars, organizations, contentVars>>

HandleUpdateMember ==
    /\ pc = "handler" /\ req.route = "updateMember"
    /\ LET orgId == ParseInt(req.pathOrg)
           member == GetOrganizationMember(orgId, req.userId)
       IN  IF req.role = Absent
           THEN Respond(400, "error", {}) /\ UNCHANGED organizationMembers
           ELSE IF member = "none"
           THEN Respond(404, "error", {}) /\ UNCHANGED organizationMembers
           ELSE IF member = "owner" /\ req.role # "owner"
           THEN Respond(403, "error", {}) /\ UNCHANGED organizationMembers
           ELSE /\ organizationMembers' =
                     [organizationMembers EXCEPT
                        ![<<orgId, req.userId>>] = req.role]
                /\ Respond(200, "member", {req.userId})
    /\ UNCHANGED <<req, calls, reqOrganization, reqOrgRole, userIdCounter,
                   organizationIdCounter, dataSources, dataSourceIdCounter,
                   connVars,
                   organizations, contentVars>>

HandleRemoveMember ==
    /\ pc = "handler" /\ req.route = "removeMember"
    /\ LET orgId == ParseInt(req.pathOrg)
           member == GetOrganizationMember(orgId, req.userId)
       IN  IF member = "none"
           THEN Respond(404, "error", {}) /\ UNCHANGED organizationMembers
           ELSE IF member = "owner"
           THEN Respond(403, "error", {}) /\ UNCHANGED organizationMembers
           ELSE IF reqOrgRole = "admin" /\ member = "admin"
           THEN Respond(403, "error", {}) /\ UNCHANGED organizationMembers
           ELSE /\ organizationMembers' =
                     [organizationMembers EXCEPT
                        ![<<orgId, req.userId>>] = "none"]
                /\ Respond(204, "empty", {})
    /\ UNCHANGED <<req, calls, reqOrganization, reqOrgRole, userIdCounter,
                   organizationIdCounter, dataSources, dataSourceIdCounter,
                   connVars,
                   organizations, contentVars>>

MemberNext ==
    \/ Register
    \/ ReceiveMember
    \/ TenantIsolationMiddleware
    \/ RoleCheckMiddleware
    \/ HandleCreateOrganization
    \/ HandleAddMember
    \/ HandleUpdateMember
    \/ HandleRemoveMember
    \/ Finish

MemberSpec == Init /\ [][MemberNext]_vars

\* ------------------------- the per-table column query of the schema functions
Cols == 1..MaxCols

ForeignKeys == SUBSET Cols \ {{}}

\* information_schema.key_column_usage: one row per column of each key
\* constraint of "t"
KeyColumnUsage(cat) ==
    {[constraint |-> <<"pk", {}>>, type |-> "PRIMARY KEY", column |-> c,
      refTable |-> "none", refColumn |-> 0] : c \in cat.pk}
    \cup
    {[constraint |-> <<"fk", f>>, type |-> "FOREIGN KEY", column |-> c,
      refTable |-> "r", refColumn |-> c] :
        <<f, c>> \in {fc \in cat.fks \X Cols : fc[2] \in fc[1]}}

\* information_schema.constraint_column_usage: the columns a foreign key
\* refers to
ConstraintColumnUsage(cat) ==
    {[constraint |-> <<"fk", f>>, table |-> "r", column |-> c] :
        <<f, c>> \in {fc \in cat.fks \X Cols : fc[2] \in fc[1]}}

NullRow == [constraint |-> <<"null", {}>>, type |-> "null", column |-> 0,
            refTable |-> "null", refColumn |-> 0]

\* A LEFT JOIN B: the matching rows of B, or one all-NULL row
LeftJoin(matches) == IF matches = {} THEN {NullRow} ELSE matches

\* rows of the PostgreSQL column query for column c: columns LEFT JOIN pk
\* LEFT JOIN fk, fk being key_column_usage JOIN constraint_column_usage on the
\* constraint name
PostgresRows(cat, c) ==
    LET pk == {k \in KeyColumnUsage(cat) :
                  k.type = "PRIMARY KEY" /\ k.column = c}
        fk == {[constraint |-> k.constraint, type |-> k.type,
                column |-> k.column, refTable |-> u.table,
                refColumn |-> u.column] :
                  <<k, u>> \in
                    {ku \in KeyColumnUsage(cat) \X ConstraintColumnUsage(cat) :
                        /\ ku[1].type = "FOREIGN KEY"
                        /\ ku[1].column = c
                        /\ ku[1].constraint = ku[2].constraint}}
    IN  {[column |-> c, pk |-> p, fk |-> f,
          is_primary_key |-> p.type = "PRIMARY KEY",
          is_foreign_key |-> f.constraint # NullRow.constraint,
          foreign_table_name |-> f.refTable,
          foreign_column_name |-> f.refColumn] :
            <<p, f>> \in LeftJoin(pk) \X LeftJoin(fk)}

\* rows of the MySQL column query for column c: COLUMNS LEFT JOIN
\* KEY_COLUMN_USAGE kcu LEFT JOIN TABLE_CONSTRAINTS tc (primary keys) LEFT JOIN
\* KEY_COLUMN_USAGE kcu2 (rows with a referenced table)
MySQLRows(cat, c) ==
    LET kcu == {k \in KeyColumnUsage(cat) : k.column = c}
        kcu2 == {k \in KeyColumnUsage(cat) :
                    k.column = c /\ k.refTable # "none"}
    IN  {[column |-> c, pk |-> k, fk |-> k2,
          is_primary_key |-> k.type = "PRIMARY KEY",
          is_foreign_key |-> k2.refTable # "null",
          foreign_table_name |-> k2.refTable,
          foreign_column_name |-> k2.refColumn] :
            <<k, k2>> \in LeftJoin(kcu) \X LeftJoin(kcu2)}

ColumnRows(cat) ==
    UNION {IF Engine(cat.type) = "pg" THEN PostgresRows(cat, c)
           ELSE MySQLRows(cat, c) : c \in Cols}

\* ORDER BY ordinal_position
RECURSIVE OrderByOrdinalPosition(_)
OrderByOrdinalPosition(rows) ==
    IF rows = {} THEN <<>>
    ELSE LET first == CHOOSE x \in rows :
                          \A y \in rows : x.column <= y.column
         IN  <<first>> \o OrderByOrdinalPosition(rows \ {first})

\* columnsResult.rows.map(row => ({...}))
SchemaColumn(row) ==
    [name |-> row.column,
     isPrimaryKey |-> row.is_primary_key,
     isForeignKey |-> row.is_foreign_key,
     references |-> IF row.is_foreign_key
                    THEN [table |-> row.foreign_table_name,
                          column |-> row.foreign_column_name]
                    ELSE [table |-> "undefined", column |-> 0]]

\* a schema function reaches table "t" of a database with the given keys
IntrospectCall ==
    /\ pc = "idle"
    /\ \E type \in SupportedTypes, pk \in SUBSET Cols,
          fks \in SUBSET ForeignKeys :
        catalog' = [type |-> type, pk |-> pk, fks |-> fks]
    /\ schemaColumns' = <<>>
    /\ pc' = "introspect"
    /\ UNCHANGED <<req, res, calls, reqOrganization, reqOrgRole, storageVars,
                   op, opDs, cpc, client, openConns, driverLog, pending,
                   result, tableCount, tables>>

\* the column query for "t" and the mapping of its rows
TableColumns ==
    /\ pc = "introspect"
    /\ schemaColumns' =
         LET rows == OrderByOrdinalPosition(ColumnRows(catalog))
         IN  [i \in 1..Len(rows) |-> SchemaColumn(rows[i])]
    /\ pc' = "introspected"
    /\ UNCHANGED <<req, res, calls, reqOrganization, reqOrgRole, storageVars,
                   op, opDs, cpc, client, openConns, driverLog, pending,
                   result, tableCount, tables, catalog>>

IntrospectReturn ==
    /\ pc = "introspected"
    /\ pc' = "idle"
    /\ catalog' = NoCatalog
    /\ schemaColumns' = <<>>
    /\ UNCHANGED <<req, res, calls, reqOrganization, reqOrgRole, storageVars,
                   op, opDs, cpc, client, openConns, driverLog, pending,
                   result, tableCount, tables>>

SchemaNext ==
    \/ IntrospectCall
    \/ TableColumns
    \/ IntrospectReturn

SchemaSpec == Init /\ [][SchemaNext]_vars

\* ------------------------ the routes without a tenant path segment
\* a request to /api/datasources...: no middleware is mounted on these paths.
\* The body of a create names the organization the record is stored under.
ReceiveLegacy ==
    /\ pc = "idle"
    /\ \E route \in LegacyRoutes,
          caller \in {NoUser} \cup (1..(userIdCounter - 1)) :
        /\ route = "legacyCreate" => dataSourceIdCounter <= MaxDs
        /\ \E bodyOrg \in (IF route = "legacyCreate"
                           THEN BodyOrgInputs \ {Absent} ELSE {Absent}),
              id \in (IF route \in LegacyIdRoutes THEN 1..MaxDs ELSE {0}),
              payload \in (IF route \in {"legacyExecute", "legacyNlq"}
                           THEN BOOLEAN ELSE {FALSE}),
              type \in (IF route = "legacyCreate"
                        THEN TypeInputs ELSE {"none"}),
              valid \in (IF route = "legacyCreate"
                         THEN BOOLEAN ELSE {TRUE}) :
            req' = [NoReq EXCEPT !.route = route, !.caller = caller,
                                 !.bodyOrg = bodyOrg, !.id = id,
                                 !.payload = payload, !.type = type,
                                 !.valid = valid]
    /\ pc' = "handler"
    /\ res' = NoRes
    /\ calls' = {}
    /\ reqOrganization' = Null
    /\ reqOrgRole' = "none"
    /\ UNCHANGED <<storageVars, connVars>>

\* 401 / 404 / 403 of the handlers that take a data-source id; 0 when all pass
LegacyStatus(r) ==
    LET dataSource == GetDataSource(r.id)
    IN  IF r.caller = NoUser THEN 401
        ELSE IF dataSource = NoDs THEN 404
        ELSE IF dataSource.userId # r.caller THEN 403
        ELSE 0

HandleLegacyList ==
    /\ pc = "handler" /\ req.route = "legacyList"
    /\ IF req.caller = NoUser
       THEN Respond(401, "error", {}) /\ UNCHANGED calls
       ELSE /\ Respond(200, "list", GetAllDataSources(req.caller))
            /\ calls' = calls \cup {"dsRead"}
    /\ UNCHANGED <<req, reqOrganization, reqOrgRole, storageVars, connVars>>

HandleLegacyCreate ==
    /\ pc = "handler" /\ req.route = "legacyCreate"
    /\ LET orgId == ParseInt(req.bodyOrg)
       IN  IF req.caller = NoUser
           THEN /\ Respond(401, "error", {})
                /\ UNCHANGED <<calls, connVars>>
           ELSE IF ~InsertDataSourceSchemaParse(req, orgId)
           THEN /\ Respond(400, "error", {})
                /\ UNCHANGED <<calls, connVars>>
           ELSE /\ StartConnector("test",
                     [organizationId |-> orgId, type |-> req.type,
                      userId |-> req.caller])
                /\ calls' = calls \cup {"connector"}
                /\ pc' = "connector"
                /\ UNCHANGED res
    /\ UNCHANGED <<req, reqOrganization, reqOrgRole, storageVars>>

LegacyAfterTest ==
    /\ pc = "connector" /\ cpc = "ret" /\ req.route = "legacyCreate"
    /\ IF result.kind = "raise"
       THEN /\ Respond(500, "error", {})
            /\ UNCHANGED <<dataSources, dataSourceIdCounter>>
       ELSE IF ~ConnectionAccepted(result)
       THEN /\ Respond(400, "error", {})
            /\ UNCHANGED <<dataSources, dataSourceIdCounter>>
       ELSE /\ dataSources' =
                 [dataSources EXCEPT ![dataSourceIdCounter] = opDs]
            /\ dataSourceIdCounter' = dataSourceIdCounter + 1
            /\ Respond(201, "ds", {dataSourceIdCounter})
    /\ UNCHANGED <<req, calls, reqOrganization, reqOrgRole, userIdCounter,
                   organizationIdCounter, organizationMembers, connVars,
                   organizations, contentVars>>

HandleLegacyFetch ==
    /\ pc = "handler" /\ req.route = "legacyFetch"
    /\ LET st == LegacyStatus(req)
       IN  IF st = 401 THEN Respond(401, "error", {}) /\ UNCHANGED calls
           ELSE /\ IF st # 0 THEN Respond(st, "error", {})
                   ELSE Respond(200, "ds", {req.id})
                /\ calls' = calls \cup {"dsRead"}
    /\ UNCHANGED <<req, reqOrganization, reqOrgRole, storageVars, connVars>>

HandleLegacyDelete ==
    /\ pc = "handler" /\ req.route = "legacyDelete"
    /\ LET st == LegacyStatus(req)
       IN  IF st = 401
           THEN Respond(401, "error", {}) /\ UNCHANGED <<calls, dataSources>>
           ELSE /\ IF st # 0
                   THEN Respond(st, "error", {}) /\ UNCHANGED dataSources
                   ELSE /\ dataSources' =
                             [dataSources EXCEPT ![req.id] = NoDs]
                        /\ Respond(204, "empty", {})
                /\ calls' = calls \cup {"dsRead"}
    /\ UNCHANGED <<req, reqOrganization, reqOrgRole, userIdCounter,
                   organizationIdCounter, organizationMembers,
                   dataSourceIdCounter, connVars,
                   organizations, contentVars>>

HandleLegacySchema ==
    /\ pc = "handler" /\ req.route = "legacySchema"
    /\ LET st == LegacyStatus(req)
       IN  IF st = 401
           THEN Respond(401, "error", {}) /\ UNCHANGED <<calls, connVars>>
           ELSE IF st # 0
           THEN /\ Respond(st, "error", {})
                /\ calls' = calls \cup {"dsRead"}
                /\ UNCHANGED connVars
           ELSE /\ StartConnector("schema", GetDataSource(req.id))
                /\ calls' = calls \cup {"dsRead", "connector"}
                /\ pc' = "connector"
                /\ UNCHANGED res
    /\ UNCHANGED <<req, reqOrganization, reqOrgRole, storageVars>>

LegacyAfterSchema ==
    /\ pc = "connector" /\ cpc = "ret" /\ req.route = "legacySchema"
    /\ IF result.kind = "raise"
       THEN Respond(500, "error", {})
       ELSE Respond(200, "schema", {})
    /\ UNCHANGED <<req, calls, reqOrganization, reqOrgRole, storageVars,
                   connVars>>

HandleLegacyExecute ==
    /\ pc = "handler" /\ req.route = "legacyExecute"
    /\ LET st == LegacyStatus(req)
       IN  IF st = 401
           THEN Respond(401, "error", {}) /\ UNCHANGED <<calls, connVars>>
           ELSE IF st # 0
           THEN /\ Respond(st, "error", {})
                /\ calls' = calls \cup {"dsRead"}
                /\ UNCHANGED connVars
           ELSE IF ~req.payload
           THEN /\ Respond(400, "error", {})
                /\ calls' = calls \cup {"dsRead"}
                /\ UNCHANGED connVars
           ELSE /\ StartConnector("execute", GetDataSource(req.id))
                /\ calls' = calls \cup {"dsRead", "connector"}
                /\ pc' = "connector"
                /\ UNCHANGED res
    /\ UNCHANGED <<req, reqOrganization, reqOrgRole, storageVars>>

LegacyAfterExecute ==
    /\ pc = "connector" /\ cpc = "ret" /\ req.route = "legacyExecute"
    /\ IF result.kind = "raise"
       THEN Respond(500, "error", {})
       ELSE Respond(200, "result", {})
    /\ UNCHANGED <<req, calls, reqOrganization, reqOrgRole, storageVars,
                   connVars>>

HandleLegacyNlq ==
    /\ pc = "handler" /\ req.route = "legacyNlq"
    /\ LET st == LegacyStatus(req)
       IN  IF st = 401
           THEN Respond(401, "error", {}) /\ UNCHANGED <<calls, connVars>>
           ELSE IF st # 0
           THEN /\ Respond(st, "error", {})
                /\ calls' = calls \cup {"dsRead"}
                /\ UNCHANGED connVars
           ELSE IF ~req.payload
           THEN /\ Respond(400, "error", {})
                /\ calls' = calls \cup {"dsRead"}
                /\ UNCHANGED connVars
           ELSE /\ StartConnector("schema", GetDataSource(req.id))
                /\ calls' = calls \cup {"dsRead", "connector"}
                /\ pc' = "connector"
                /\ UNCHANGED res
    /\ UNCHANGED <<req, reqOrganization, reqOrgRole, storageVars>>

LegacyAfterNlqSchema ==
    /\ pc = "connector" /\ cpc = "ret" /\ req.route = "legacyNlq"
    /\ IF result.kind = "raise"
       THEN Respond(500, "error", {})
       ELSE pc' = "ai" /\ UNCHANGED res
    /\ UNCHANGED <<req, calls, reqOrganization, reqOrgRole, storageVars,
                   connVars>>

LegacyNext ==
    \/ Register
    \/ ReceiveLegacy
    \/ HandleLegacyList
    \/ HandleLegacyCreate
    \/ HandleLegacyFetch
    \/ HandleLegacyDelete
    \/ HandleLegacySchema
    \/ HandleLegacyExecute
    \/ HandleLegacyNlq
    \/ Dispatch
    \/ Connect
    \/ Query
    \/ ListTables
    \/ ColumnsQuery
    \/ End
    \/ LegacyAfterTest
    \/ LegacyAfterSchema
    \/ LegacyAfterExecute
    \/ LegacyAfterNlqSchema
    \/ AiConvert
    \/ Finish

LegacySpec == Init /\ [][LegacyNext]_vars

\* --------------------------------- data sources and the queries saved on them
QueryRoutes == {"create", "delete", "createQuery"}

\* a request that names its organization in the path only; the body of a
\* createQuery names the data source the query is saved for (req.id)
ReceiveQuery ==
    /\ pc = "idle"
    /\ \E route \in QueryRoutes,
          caller \in {NoUser} \cup (1..(userIdCounter - 1)),
          pathOrg \in MemberOrgInputs :
        /\ route = "create" => dataSourceIdCounter <= MaxDs
        /\ route = "createQuery" => savedQueryIdCounter <= MaxQueries
        /\ \E id \in (IF route = "create" THEN {0} ELSE 1..MaxDs),
              type \in (IF route = "create" THEN TypeInputs ELSE {"none"}),
              valid \in (IF route = "delete" THEN {TRUE} ELSE BOOLEAN) :
            req' = [NoReq EXCEPT !.route = route, !.caller = caller,
                                 !.pathOrg = pathOrg, !.id = id,
                                 !.type = type, !.valid = valid]
    /\ pc' = "guard"
    /\ res' = NoRes
    /\ calls' = {}
    /\ reqOrganization' = Null
    /\ reqOrgRole' = "none"
    /\ UNCHANGED <<storageVars, connVars>>

InsertSavedQuerySchemaParse(r, orgId) == r.valid /\ orgId # NaN

\* POST /api/organizations/:organizationId/queries; req.user.id of a request
\* without a session throws, which the catch hands to next(error)
HandleCreateQuery ==
    /\ pc = "handler" /\ req.route = "createQuery"
    /\ LET orgId == ParseInt(req.pathOrg)
       IN  IF req.caller = NoUser
           THEN /\ Respond(500, "error", {})
                /\ UNCHANGED <<savedQueries, savedQueryIdCounter>>
           ELSE IF ~InsertSavedQuerySchemaParse(req, orgId)
           THEN /\ Respond(400, "error", {})
                /\ UNCHANGED <<savedQueries, savedQueryIdCounter>>
           ELSE /\ savedQueries' = savedQueries \cup
                     {[id |-> savedQueryIdCounter, organizationId |-> orgId,
                       dataSourceId |-> req.id]}
                /\ savedQueryIdCounter' = savedQueryIdCounter + 1
                /\ Respond(201, "query", {savedQueryIdCounter})
    /\ UNCHANGED <<req, calls, reqOrganization, reqOrgRole, userIdCounter,
                   organizationIdCounter, organizationMembers, dataSources,
                   dataSourceIdCounter, organizations, dashboards,
                   dashboardIdCounter, dashboardItems, dashboardItemIdCounter,
                   connVars>>

QueryNext ==
    \/ Register
    \/ ReceiveQuery
    \/ TenantIsolationMiddleware
    \/ RoleCheckMiddleware
    \/ HandleCreate
    \/ Dispatch
    \/ Connect
    \/ Query
    \/ End
    \/ AfterTest
    \/ HandleDelete
    \/ HandleCreateQuery
    \/ Finish

QuerySpec == Init /\ [][QueryNext]_vars

\* ------------------------------------- the methods of MemStorage, called directly
NextDataSourceId_FirstFree ==
    CHOOSE i \in 1..(MaxIds + 1) :
        /\ GetDataSource(i) = NoDs
        /\ \A j \in 1..(i - 1) : GetDataSource(j) # NoDs

\* `this.dataSourceIdCounter++`
NextDataSourceId == dataSourceIdCounter

CreateDataSource ==
    /\ pc = "idle"
    /\ dataSourceIdCounter <= MaxIds
    /\ \E organizationId \in 1..MaxOrgs, type \in SupportedTypes :
        LET id == NextDataSourceId
            dataSource == [organizationId |-> organizationId, type |-> type]
        IN  dataSources' =
                [i \in DOMAIN dataSources \cup {id} |->
                    IF i = id THEN dataSource ELSE dataSources[i]]
    /\ dataSourceIdCounter' = dataSourceIdCounter + 1
    /\ UNCHANGED <<userIdCounter, organizationIdCounter, organizationMembers,
                   organizations, contentVars, requestVars, connVars>>

DeleteDataSource ==
    /\ pc = "idle"
    /\ \E id \in 1..MaxIds :
        dataSources' = [i \in DOMAIN dataSources |->
                           IF i = id THEN NoDs ELSE dataSources[i]]
    /\ UNCHANGED <<userIdCounter, organizationIdCounter, organizationMembers,
                   dataSourceIdCounter, organizations, contentVars,
                   requestVars, connVars>>

\* createDataSource and deleteDataSource alone
IdNext ==
    \/ CreateDataSource
    \/ DeleteDataSource

IdSpec == Init /\ [][IdNext]_vars

CreateOrganization ==
    /\ pc = "idle"
    /\ organizationIdCounter <= MaxOrgs
    /\ organizations' = organizations \cup {organizationIdCounter}
    /\ organizationIdCounter' = organizationIdCounter + 1
    /\ UNCHANGED <<userIdCounter, organizationMembers, dataSources,
                   dataSourceIdCounter, contentVars, requestVars, connVars>>

AddOrganizationMember ==
    /\ pc = "idle"
    /\ MemberCount < MaxMembers
    /\ \E organizationId \in organizations, role \in {"member", Absent} :
        organizationMembers' =
            [organizationMembers EXCEPT ![<<organizationId, 1>>] =
                IF role = Absent THEN "member" ELSE role]
    /\ UNCHANGED <<userIdCounter, organizationIdCounter, dataSources,
                   dataSourceIdCounter, organizations, contentVars,
                   requestVars, connVars>>

CreateSavedQuery ==
    /\ pc = "idle"
    /\ savedQueryIdCounter <= MaxStored
    /\ \E organizationId \in 1..MaxOrgs, dataSourceId \in 1..MaxIds :
        savedQueries' = savedQueries \cup
            {[id |-> savedQueryIdCounter, organizationId |-> organizationId,
              dataSourceId |-> dataSourceId]}
    /\ savedQueryIdCounter' = savedQueryIdCounter + 1
    /\ UNCHANGED <<userIdCounter, organizationIdCounter, organizationMembers,
                   dataSources, dataSourceIdCounter, organizations,
                   dashboards, dashboardIdCounter, dashboardItems,
                   dashboardItemIdCounter, requestVars, connVars>>

CreateDashboard ==
    /\ pc = "idle"
    /\ dashboardIdCounter <= MaxStored
    /\ \E organizationId \in 1..MaxOrgs :
        dashboards' = dashboards \cup
            {[id |-> dashboardIdCounter, organizationId |-> organizationId]}
    /\ dashboardIdCounter' = dashboardIdCounter + 1
    /\ UNCHANGED <<userIdCounter, organizationIdCounter, organizationMembers,
                   dataSources, dataSourceIdCounter, organizations,
                   savedQueries, savedQueryIdCounter, dashboardItems,
                   dashboardItemIdCounter, requestVars, connVars>>

CreateDashboardItem ==
    /\ pc = "idle"
    /\ dashboardItemIdCounter <= MaxStored
    /\ \E dashboardId \in 1..MaxStored :
        dashboardItems' = dashboardItems \cup
            {[id |-> dashboardItemIdCounter, dashboardId |-> dashboardId]}
    /\ dashboardItemIdCounter' = dashboardItemIdCounter + 1
    /\ UNCHANGED <<userIdCounter, organizationIdCounter, organizationMembers,
                   dataSources, dataSourceIdCounter, organizations,
                   savedQueries, savedQueryIdCounter, dashboards,
                   dashboardIdCounter, requestVars, connVars>>

\* the members, then the data sources with the saved queries on them, then
\* the dashboards with their items, then the organization
DeleteOrganization ==
    /\ pc = "idle"
    /\ \E id \in 1..MaxOrgs :
        LET dsIds == {i \in DOMAIN dataSources :
                         /\ dataSources[i] # NoDs
                         /\ dataSources[i].organizationId = id}
            dashIds == {d.id : d \in {x \in dashboards :
                                         x.organizationId = id}}
        IN  /\ organizationMembers' =
                 [k \in DOMAIN organizationMembers |->
                     IF k[1] = id THEN "none" ELSE organizationMembers[k]]
            /\ savedQueries' =
                 {q \in savedQueries : q.dataSourceId \notin dsIds}
            /\ dataSources' =
                 [i \in DOMAIN dataSources |->
                     IF i \in dsIds THEN NoDs ELSE dataSources[i]]
            /\ dashboardItems' =
                 {item \in dashboardItems : item.dashboardId \notin dashIds}
            /\ dashboards' = {d \in dashboards : d.id \notin dashIds}
            /\ organizations' = organizations \ {id}
    /\ UNCHANGED <<userIdCounter, organizationIdCounter, dataSourceIdCounter,
                   savedQueryIdCounter, dashboardIdCounter,
                   dashboardItemIdCounter, requestVars, connVars>>

StorageNext ==
    \/ CreateOrganization
    \/ AddOrganizationMember
    \/ CreateDataSource
    \/ DeleteDataSource
    \/ CreateSavedQuery
    \/ CreateDashboard
    \/ CreateDashboardItem
    \/ DeleteOrganization

StorageSpec == Init /\ [][StorageNext]_vars

\* ------------------------- member removals while a data-source request runs
\* Two users, each the owner of a personal organization; user 2 was added to
\* organization 1 as a member, and organization 1 has data source 1.
RaceInit ==
    /\ userIdCounter = 3
    /\ organizationIdCounter = 3
    /\ organizationMembers =
         [k \in (1..MaxOrgs) \X (1..MaxUsers) |->
            IF k \in {<<1, 1>>, <<2, 2>>} THEN "owner"
            ELSE IF k = <<1, 2>> THEN "member" ELSE "none"]
    /\ dataSources =
         [i \in 1..MaxDs |->
            IF i = 1 THEN [organizationId |-> 1, type |-> "postgresql"]
            ELSE NoDs]
    /\ dataSourceIdCounter = 2
    /\ organizations = {1, 2}
    /\ savedQueries = {}
    /\ savedQueryIdCounter = 1
    /\ dashboards = {}
    /\ dashboardIdCounter = 1
    /\ dashboardItems = {}
    /\ dashboardItemIdCounter = 1
    /\ pc = "idle"
    /\ req = NoReq
    /\ res = NoRes
    /\ calls = {}
    /\ reqOrganization = Null
    /\ reqOrgRole = "none"
    /\ op = "none"
    /\ opDs = NoDs
    /\ cpc = "none"
    /\ client = "none"
    /\ openConns = 0
    /\ driverLog = <<>>
    /\ pending = NoCompletion
    /\ result = NoCompletion
    /\ tableCount = 0
    /\ tables = <<>>
    /\ catalog = NoCatalog
    /\ schemaColumns = <<>>

\* POST /api/organizations/:organizationId/data-sources/:id/execute of a
\* signed-in user
ReceiveRace ==
    /\ pc = "idle"
    /\ \E caller \in 1..(userIdCounter - 1),
          pathOrg \in PathOrgInputs,
          bodyOrg \in BodyOrgInputs,
          queryOrg \in QueryOrgInputs,
          id \in 1..MaxDs,
          payload \in BOOLEAN :
        req' = [NoReq EXCEPT !.route = "execute", !.caller = caller,
                             !.pathOrg = pathOrg, !.bodyOrg = bodyOrg,
                             !.queryOrg = queryOrg, !.id = id,
                             !.payload = payload, !.valid = TRUE]
    /\ pc' = "guard"
    /\ res' = NoRes
    /\ calls' = {}
    /\ reqOrganization' = Null
    /\ reqOrgRole' = "none"
    /\ UNCHANGED <<storageVars, connVars>>

\* the request of this module is between two of its steps only while it
\* waits for the database driver: the guard, the role check and the handlers
\* await nothing but MemStorage, whose promises are already resolved
Yielded ==
    \/ pc = "idle"
    \/ pc = "connector" /\ cpc \in {"connect", "query", "tables", "columns",
                                    "end"}

\* DELETE /api/organizations/:organizationId/members/:userId of another
\* client, from the guard to the 204
RemoveMemberMeanwhile ==
    /\ Yielded
    /\ \E actor \in 1..(userIdCounter - 1),
          pathOrg \in MemberOrgInputs,
          bodyOrg \in BodyOrgInputs,
          userId \in 1..MaxUsers :
        LET r == [NoReq EXCEPT !.route = "removeMember", !.caller = actor,
                               !.pathOrg = pathOrg, !.bodyOrg = bodyOrg,
                               !.userId = userId]
            organizationId == GetOrganizationIdFromRequest(r)
            membership == GetOrganizationMember(organizationId, actor)
            orgId == ParseInt(pathOrg)
            member == GetOrganizationMember(orgId, userId)
        IN  /\ ~Falsy(organizationId)
            /\ membership # "none"
            /\ GetOrganization(organizationId) # Null
            /\ RoleAllowed(membership, RequiredRoles("removeMember"))
            /\ member \notin {"none", "owner"}
            /\ ~(membership = "admin" /\ member = "admin")
            /\ organizationMembers' =
                 [organizationMembers EXCEPT ![<<orgId, userId>>] = "none"]
    /\ UNCHANGED <<userIdCounter, organizationIdCounter, dataSources,
                   dataSourceIdCounter, organizations, contentVars,
                   requestVars, connVars>>

RaceNext ==
    \/ ReceiveRace
    \/ TenantIsolationMiddleware
    \/ HandleExecute
    \/ Dispatch
    \/ Connect
    \/ Query
    \/ End
    \/ AfterExecute
    \/ RemoveMemberMeanwhile
    \/ Finish

RaceSpec == RaceInit /\ [][RaceNext]_vars

\* ================================================================ claims
IsMember(o, u) == GetOrganizationMember(o, u) # "none"

Responding == pc # "done" /\ pc' = "done"

\* C1: in an organization-scoped request a connector operation on data source
\* D runs only if the caller is authenticated and the isolation guard found,
\* in this request, a membership of the caller in the organization owning D
\* (for create: the organization D is stored under).
C1_ConnectorOnlyWhenAuthorized ==
    (pc = "connector" /\ req.route \in Routes) =>
        /\ req.caller # NoUser
        /\ "member" \in calls
        /\ reqOrganization = opDs.organizationId
        /\ IsMember(opDs.organizationId, req.caller)

\* C2: a request without a valid session to an organization-scoped data-source
\* route is answered 401, reads no data source from storage and starts no
\* connector operation.
C2_UnauthenticatedRejected ==
    (req.route \in Routes /\ req.caller = NoUser) =>
        /\ "dsRead" \notin calls
        /\ "connector" \notin calls
        /\ pc = "done" => res.status = 401

\* C3: a caller who is a member of some organization B but not of A, and whose
\* request path names A (and a data source of A), is answered 403 on list,
\* fetch, delete, schema, execute and nlq, whatever body and query string the
\* request carries.
C3_OwnershipRecheck ==
    [][(/\ Responding
        /\ req.route \in {"list", "fetch", "delete", "schema", "execute",
                          "nlq"}
        /\ req.caller # NoUser
        /\ GetOrganization(ParseInt(req.pathOrg)) # Null
        /\ ~IsMember(ParseInt(req.pathOrg), req.caller)
        /\ \E b \in 1..MaxOrgs : IsMember(b, req.caller)
        /\ req.route \in IdRoutes =>
              /\ GetDataSource(req.id) # NoDs
              /\ GetDataSource(req.id).organizationId = ParseInt(req.pathOrg))
       => res'.status = 403]_vars

\* C4: for a data source D of organization A and an authenticated caller who
\* is not a member of A, a fetch, schema, execute, nlq or delete request on
\* D's id under an organization B # A is answered 403 and leaves D unchanged.
C4_CrossObjectReference ==
    [][(/\ pc \notin {"idle", "direct"}
        /\ req.route \in IdRoutes
        /\ req.caller # NoUser
        /\ GetDataSource(req.id) # NoDs
        /\ ~IsMember(GetDataSource(req.id).organizationId, req.caller)
        /\ GetOrganization(ParseInt(req.pathOrg)) # Null
        /\ ParseInt(req.pathOrg) # GetDataSource(req.id).organizationId)
       => /\ dataSources' = dataSources
          /\ Responding => res'.status = 403]_vars

\* ----------------------------------------------- what the driver log shows
FailedCalls == {i \in DOMAIN driverLog : ~driverLog[i].ok}

Called(call) == {i \in DOMAIN driverLog : driverLog[i].call = call}

Succeeded(call) == \E i \in Called(call) : driverLog[i].ok

ErrorOf(call) ==
    CASE call = "connect" -> ConnectError
      [] call = "end" -> EndError
      [] OTHER -> QueryError

\* C5: executeQuery never raises; when connecting, running the statement or
\* closing fails it returns columns = [], rows = [], rowCount = 0 and the
\* failure message as error, and the execute route answers 200 with that
\* QueryResult.
C5_ExecuteQueryErrorIsValue ==
    /\ (op = "execute" /\ cpc = "ret") =>
          /\ result.kind = "return"
          /\ FailedCalls # {} =>
                /\ result.columns = <<>>
                /\ result.rows = <<>>
                /\ result.rowCount = 0
                /\ result.error \in
                     {ErrorOf(driverLog[i].call) : i \in FailedCalls}
    /\ (pc = "done" /\ req.route = "execute" /\ "connector" \in calls) =>
          /\ res.status = 200
          /\ res.body = "result"

C5_Witness ==
    /\ pc = "done" /\ req.route = "execute"
    /\ Succeeded("connect") /\ ~Succeeded("query")
    /\ result.error = QueryError
    /\ res.status = 200

\* C6: for an engine identifier that is not supported, test, fetchSchema and
\* executeQuery each fail with the unsupported-engine error before any client
\* or connection is created.
C6_UnsupportedEngineFailsFast ==
    (op \in {"test", "schema", "execute"}
       /\ opDs.type \notin SupportedTypes) =>
        /\ client = "none"
        /\ driverLog = <<>>
        /\ openConns = 0
        /\ cpc \in {"dispatch", "ret"}
        /\ cpc = "ret" =>
              /\ result.error = UnsupportedMsg
              /\ ~(result.kind = "return" /\ result.success)

C6_Witness ==
    /\ op = "schema" /\ opDs.type = "oracle" /\ cpc = "ret"
    /\ result.kind = "raise" /\ result.error = UnsupportedMsg

\* C7: the connection opened for an invocation of test, fetchSchema or
\* executeQuery is closed exactly once, whether the operation returns or
\* raises, so after each call no connection remains open.
C7_ConnectionClosedExactlyOnce ==
    /\ Cardinality(Called("end")) <= 1
    /\ openConns = (IF client = "open" THEN 1 ELSE 0)
    /\ cpc = "ret" =>
          /\ Succeeded("connect") =>
                Cardinality(Called("end")) = 1 /\ client = "closed"
          /\ openConns = 0
    /\ pc = "idle" => openConns = 0

C7_Witness ==
    /\ op = "schema" /\ cpc = "ret" /\ result.kind = "raise"
    /\ Succeeded("connect") /\ ~Succeeded("columns")
    /\ Cardinality(Called("end")) = 1
    /\ openConns = 0

\* C8: testDataSourceConnection never raises; it returns success = true exactly
\* when the connection was opened, the probe succeeded and no step of the
\* attempt (creating the connection, handshake, probe, close) failed, and
\* otherwise success = false with an error message.
C8_TestConnectionNeverRaises ==
    (op = "test" /\ cpc = "ret") =>
        /\ result.kind = "return"
        /\ result.success <=>
              (Succeeded("connect") /\ Succeeded("query") /\ FailedCalls = {})
        /\ ~result.success => result.error # ""

C8_Witness ==
    /\ op = "test" /\ cpc = "ret"
    /\ Succeeded("query") /\ ~Succeeded("end") /\ Called("end") # {}
    /\ result = TestFailure(EndError)

\* C9: fetchSchemaFromDataSource is all-or-nothing: when the connection
\* attempt, the table listing or a per-table column query fails the call raises
\* and returns no TableSchema; tables are returned only when every catalog
\* query succeeded.
C9_SchemaAllOrNothing ==
    (op = "schema" /\ cpc = "ret") =>
        /\ (FailedCalls # {} \/ opDs.type \notin SupportedTypes) =>
              result.kind = "raise" /\ result.tables = <<>>
        /\ result.kind = "return" =>
              /\ FailedCalls = {}
              /\ Succeeded("tables")
              /\ Cardinality(Called("columns")) = tableCount
              /\ result.tables = tables
              /\ Len(result.tables) = tableCount

C9_Witness ==
    /\ op = "schema" /\ cpc = "ret"
    /\ Len(tables) >= 1 /\ Succeeded("end")
    /\ \E i \in FailedCalls : driverLog[i].call = "columns"
    /\ result.kind = "raise" /\ result.tables = <<>>

C11_DeleteOwnerAdminOnly ==
    [][(/\ req.route = "delete"
        /\ req.caller # NoUser
        /\ GetDataSource(req.id) # NoDs) =>
          LET role == GetOrganizationMember(
                          GetDataSource(req.id).organizationId, req.caller)
          IN  /\ dataSources'[req.id] = NoDs => role \in {"owner", "admin"}
              /\ (Responding /\ role \notin {"owner", "admin"}) =>
                    res'.status = 403 /\ dataSources' = dataSources]_vars

C13_GuardPassesIffMember ==
    [][(/\ pc = "guard" /\ pc' # "guard"
        /\ req.caller # NoUser
        /\ ~Falsy(GetOrganizationIdFromRequest(req))) =>
          LET O == GetOrganizationIdFromRequest(req)
              membership == GetOrganizationMember(O, req.caller)
          IN  /\ pc' # "done" <=> membership # "none"
              /\ membership # "none" =>
                    reqOrgRole' = membership /\ reqOrganization' = O
              /\ membership = "none" =>
                    pc' = "done" /\ res'.status = 403]_vars

\* C14: for a base table, fetchSchema returns exactly one column entry per
\* catalog column, in ordinal-position order, with isPrimaryKey true iff the
\* column is in the primary key, isForeignKey true iff it is in a foreign key,
\* and references naming the referenced (table, column) iff isForeignKey; a
\* column that is both keeps one entry with both flags, on both engines.
C14_OneEntryPerColumn ==
    pc = "introspected" =>
        /\ Len(schemaColumns) = MaxCols
        /\ \A i \in 1..Len(schemaColumns) :
            LET col == schemaColumns[i]
                isFk == \E f \in catalog.fks : i \in f
            IN  /\ col.name = i
                /\ col.isPrimaryKey <=> i \in catalog.pk
                /\ col.isForeignKey <=> isFk
                /\ col.references =
                     IF isFk THEN [table |-> "r", column |-> i]
                     ELSE [table |-> "undefined", column |-> 0]

\* C15: no probing: a caller who is not a member of the organization owning
\* data source X gets, for a request naming X, the answer given for an id that
\* does not exist.  The handlers look the id up first and answer 404 for an
\* unknown id, so whenever such a request reaches a handler the answer must be
\* that 404.
C15_NoProbing ==
    [][(/\ pc = "handler"
        /\ req.route \in IdRoutes
        /\ req.caller # NoUser
        /\ GetDataSource(req.id) # NoDs
        /\ ~IsMember(GetDataSource(req.id).organizationId, req.caller)) =>
          pc' = "done" /\ res'.status = 404]_vars

\* C16: a legacy route without the tenant path segment gives, for the same
\* caller and data source, the outcome of its organization-scoped counterpart
\* called under the organization owning the data source: the legacy list
\* returns exactly the data sources of the organizations the caller is a
\* member of, and a legacy operation on an existing data source D is refused
\* with 403 exactly when the caller is not a member of D's organization.
C16_LegacyEquivalent ==
    [][(pc = "handler" /\ req.route \in LegacyRoutes /\ req.caller # NoUser) =>
          /\ req.route = "legacyList" =>
               /\ pc' = "done" /\ res'.status = 200
               /\ res'.data =
                    {i \in DOMAIN dataSources :
                        /\ dataSources[i] # NoDs
                        /\ IsMember(dataSources[i].organizationId,
                                    req.caller)}
          /\ (req.route \in LegacyIdRoutes /\ GetDataSource(req.id) # NoDs) =>
               ((pc' = "done" /\ res'.status = 403) <=>
                  ~IsMember(GetDataSource(req.id).organizationId,
                            req.caller))]_vars

\* C17: the guard authorizes against the organization id of the body, else of
\* the query string, else of the path, and the handler that runs after a
\* membership lookup works under that same organization: the list returns its
\* data sources, the create stores under it, and an id route refuses an
\* existing data source with 403 exactly when it belongs to another one.
C17_HandlerUsesGuardOrganization ==
    [][(/\ pc = "handler" /\ req.route \in Routes
        /\ req.caller # NoUser /\ "member" \in calls) =>
          LET organizationId == GetOrganizationIdFromRequest(req)
          IN  /\ req.route = "list" =>
                   res'.data = GetAllDataSources(organizationId)
              /\ (req.route = "create" /\ pc' = "connector") =>
                   opDs'.organizationId = organizationId
              /\ (req.route \in IdRoutes /\ GetDataSource(req.id) # NoDs) =>
                   ((pc' = "done" /\ res'.status = 403) <=>
                      GetDataSource(req.id).organizationId #
                        organizationId)]_vars

\* C18: for an authenticated request the guard passes without a membership
\* lookup and without attaching organization or role exactly when body, query
\* string and path carry no organizationId value; a value that is present,
\* "0" or a non-numeric string included, is decided by a membership lookup.
C18_NoOpIffNoOrganizationId ==
    [][(pc = "guard" /\ req.caller # NoUser) =>
          ((/\ pc' # "done"
            /\ "member" \notin calls'
            /\ reqOrganization' = Null /\ reqOrgRole' = "none") <=>
           (/\ req.bodyOrg = Absent
            /\ req.queryOrg = Absent
            /\ req.pathOrg = Absent))]_vars

\* C19: a request holds at most one open external connection, and the driver
\* calls of its operation are strictly ordered: one connect, first; queries
\* only on the connection it opened and before the close; the close last. The
\* schema operation issues the table-listing query once, directly after the
\* connect, then the column queries one after another, at most one per listed
\* table, and nothing after a query that failed except the close.
C19_OneConnectionStrictOrder ==
    LET n == Len(driverLog)
        IsQuery(i) == driverLog[i].call \in {"query", "tables", "columns"}
    IN  /\ openConns \in {0, 1}
        /\ openConns = 1 <=> client = "open"
        /\ \A i \in 1..n :
            /\ driverLog[i].call = "connect" => i = 1
            /\ driverLog[i].call = "end" => i = n /\ client = "closed"
            /\ IsQuery(i) =>
                 /\ i > 1
                 /\ driverLog[1] = [call |-> "connect", ok |-> TRUE]
                 /\ i = n => client = "open"
            /\ (i < n /\ ~driverLog[i].ok) =>
                 i + 1 = n /\ driverLog[n].call = "end"
            /\ driverLog[i].call = "tables" => op = "schema" /\ i = 2
            /\ driverLog[i].call = "columns" =>
                 /\ op = "schema" /\ i > 2
                 /\ driverLog[2] = [call |-> "tables", ok |-> TRUE]
                 /\ i - 2 <= tableCount
            /\ driverLog[i].call = "query" =>
                 op \in {"test", "execute"} /\ i = 2

C19_Witness ==
    /\ pc = "done" /\ req.route = "nlq" /\ res.status = 200
    /\ openConns = 0 /\ client = "closed"
    /\ Len(driverLog) = 5
    /\ driverLog[2].call = "tables"
    /\ driverLog[3].call = "columns" /\ driverLog[4].call = "columns"
    /\ driverLog[5].call = "end"

\* C20: the organization-scoped execute handler answers 404 when the data
\* source is not found, else 403 when its organizationId is not the
\* organization id of the path, else 400 when the body carries no query, in
\* each case without touching the connector; executeQuery is started exactly
\* when all three checks pass, and by no other step of such a request.
C20_ExecuteChecksInOrder ==
    [][LET dataSource == GetDataSource(req.id)
           found == dataSource # NoDs
           sameOrg == dataSource.organizationId = ParseInt(req.pathOrg)
           Rejected(status) ==
               /\ pc' = "done" /\ res'.status = status
               /\ UNCHANGED connVars
       IN  /\ (pc = "handler" /\ req.route = "execute") =>
                /\ ~found => Rejected(404)
                /\ (found /\ ~sameOrg) => Rejected(403)
                /\ (found /\ sameOrg /\ ~req.payload) => Rejected(400)
                /\ (found /\ sameOrg /\ req.payload) =>
                     /\ pc' = "connector" /\ res' = res
                     /\ op' = "execute" /\ opDs' = dataSource
                     /\ cpc' = "dispatch" /\ driverLog' = <<>>
           /\ (op # "execute" /\ op' = "execute") =>
                /\ pc = "handler" /\ req.route = "execute"
                /\ found /\ sameOrg /\ req.payload]_vars

C20_Witness ==
    /\ pc = "done" /\ req.route = "execute" /\ res.status = 400
    /\ GetDataSource(req.id) # NoDs
    /\ GetDataSource(req.id).organizationId = ParseInt(req.pathOrg)
    /\ ~req.payload
    /\ op = "none" /\ driverLog = <<>> /\ openConns = 0

\* C21: in the nlq route convertNaturalLanguageToSQL is called only after the
\* 404, 403 and 400 checks passed and fetchSchemaFromDataSource returned a
\* schema, the one introspected in this request from the data source that
\* passed the checks; when the introspection raised it is not called.
C21_AiAfterChecksAndSchema ==
    /\ (pc = "ai" \/ "ai" \in calls) =>
         /\ req.route = "nlq"
         /\ GetDataSource(req.id) # NoDs
         /\ GetDataSource(req.id).organizationId = ParseInt(req.pathOrg)
         /\ req.payload
         /\ op = "schema" /\ opDs = GetDataSource(req.id) /\ cpc = "ret"
         /\ result = SchemaResult(tables)
         /\ Len(tables) = tableCount
         /\ Len(driverLog) = tableCount + 3
         /\ \A i \in 1..Len(driverLog) : driverLog[i].ok
    /\ (req.route = "nlq" /\ result.kind = "raise") =>
         pc # "ai" /\ "ai" \notin calls

C21_Witness ==
    /\ pc = "done" /\ req.route = "nlq" /\ "ai" \in calls
    /\ res.status = 200 /\ result = SchemaResult(<<1, 2>>)
    /\ opDs = GetDataSource(req.id)

\* C22: testDataSourceConnection on a host that does not answer eventually
\* returns a ConnectionResult with success false, whether the host is silent
\* during the handshake or during the probe statement: it never waits forever.
C22_TestConnectionTerminates ==
    (op = "test" /\ cpc = "dispatch") ~>
        (op = "test" /\ cpc = "ret" /\ result.kind = "return")

\* C23: when a data source is deleted, no saved query that references it
\* remains in storage.
C23_DeleteCascadesToQueries ==
    [][\A i \in DOMAIN dataSources :
          (dataSources[i] # NoDs /\ dataSources'[i] = NoDs) =>
             \A q \in savedQueries' : q.dataSourceId # i]_vars

\* C24: after any sequence of organization-creation, add-member and
\* update-role requests the role of every stored membership, and the role the
\* guard attaches to a request, is one of owner, admin, member.
C24_RolesAreKnown ==
    /\ \A k \in DOMAIN organizationMembers :
          organizationMembers[k] # "none" => organizationMembers[k] \in Roles
    /\ reqOrgRole # "none" => reqOrgRole \in Roles

\* C25: no request changes a membership with role owner to another role or
\* removes it, so every organization, from the completion of the request that
\* created it, has at least one owner.
C25_OwnerIsPermanent ==
    [][/\ \A k \in DOMAIN organizationMembers :
             organizationMembers[k] = "owner" =>
                organizationMembers'[k] = "owner"
       /\ \A o \in organizations' :
             \E u \in 1..MaxUsers :
                organizationMembers'[<<o, u>>] = "owner"]_vars

C25_Witness ==
    /\ pc = "done" /\ res.status = 403 /\ reqOrgRole = "owner"
    /\ req.route \in {"updateMember", "removeMember"}
    /\ GetOrganizationMember(ParseInt(req.pathOrg), req.userId) = "owner"
    /\ organizationIdCounter > userIdCounter
    /\ ParseInt(req.pathOrg) = organizationIdCounter - 1

\* C26: a user comes to hold role owner in an organization only through the
\* creation of that organization (registration, POST /api/organizations) or
\* through a request whose caller holds role owner in it; a request of a
\* caller whose role there is admin never makes anyone owner.
C26_OwnerOnlyFromOwner ==
    [][\A k \in DOMAIN organizationMembers :
          (organizationMembers[k] # "owner" /\
           organizationMembers'[k] = "owner") =>
             \/ k[1] \notin organizations /\ k[1] \in organizations'
             \/ GetOrganizationMember(k[1], req.caller) = "owner"]_vars

\* C27: data-source ids are unique and never reused.  Under every sequence of
\* createDataSource and deleteDataSource calls the next id only grows, every
\* stored data source has an id below it, a data source that appears was
\* given exactly the next id, and an id that was handed out and deleted
\* resolves to nothing from then on.
C27_IdsNeverReused ==
    [][/\ dataSourceIdCounter' >= dataSourceIdCounter
       /\ \A i \in DOMAIN dataSources' :
            GetDataSource(i)' # NoDs => i < dataSourceIdCounter'
       /\ \A i \in DOMAIN dataSources' :
            (GetDataSource(i) = NoDs /\ GetDataSource(i)' # NoDs)
                => /\ i = dataSourceIdCounter
                   /\ dataSourceIdCounter' = i + 1
       /\ \A i \in 1..(dataSourceIdCounter - 1) :
            GetDataSource(i) = NoDs => GetDataSource(i)' = NoDs]_vars

\* data source 1 of organization 1 was deleted, and the data source created
\* afterwards for organization 2 got id 2
C27_Witness ==
    /\ dataSourceIdCounter = 3
    /\ GetDataSource(1) = NoDs
    /\ GetDataSource(2) # NoDs
    /\ GetDataSource(2).organizationId = 2

\* C28: after deleteOrganization(id) no membership, data source, saved query,
\* dashboard or dashboard item of organization id remains in storage, and
\* every record of any other organization is unchanged.
C28_DeleteOrganizationIsExact ==
    [][\A id \in organizations \ organizations' :
        LET dashOf(set, o) == {d.id : d \in {x \in set : x.organizationId = o}}
        IN  /\ \A u \in 1..MaxUsers : organizationMembers'[<<id, u>>] = "none"
            /\ \A i \in DOMAIN dataSources' :
                 \/ dataSources'[i] = NoDs
                 \/ dataSources'[i].organizationId # id
            /\ \A q \in savedQueries' : q.organizationId # id
            /\ \A d \in dashboards' : d.organizationId # id
            /\ \A item \in dashboardItems' :
                 item.dashboardId \notin dashOf(dashboards, id)
            /\ \A k \in DOMAIN organizationMembers :
                 k[1] # id => organizationMembers'[k] = organizationMembers[k]
            /\ \A i \in DOMAIN dataSources :
                 (dataSources[i] # NoDs /\ dataSources[i].organizationId # id)
                     => dataSources'[i] = dataSources[i]
            /\ {q \in savedQueries : q.organizationId # id} \subseteq savedQueries'
            /\ {d \in dashboards : d.organizationId # id} \subseteq dashboards'
            /\ {item \in dashboardItems :
                   item.dashboardId \notin dashOf(dashboards, id)}
                 \subseteq dashboardItems'
            /\ organizations' = organizations \ {id}]_vars

\* C29: under every interleaving of a data-source request with member
\* removals, a connector operation on a data source of organization A is
\* never started while the caller has no membership in A any more.  Every
\* user starts as a member of the organization of the only data source and
\* no membership is ever added, so a missing membership is a removed one.
C29_RemovalPreventsConnector ==
    [][(pc # "connector" /\ pc' = "connector")
          => /\ <<opDs'.organizationId, req'.caller>>
                 \in DOMAIN organizationMembers'
             /\ organizationMembers'[<<opDs'.organizationId, req'.caller>>]
                 # "none"]_vars

\* C30: the create route stores a data source under organization O only if
\* the caller is a member of O, and O is the organization the guard
\* authorized the caller for in this request.
C30_CreateOnlyInOwnOrganization ==
    [][\A i \in DOMAIN dataSources :
          (req.route = "create" /\ dataSources[i] = NoDs
             /\ dataSources'[i] # NoDs)
              => /\ IsMember(dataSources'[i].organizationId, req.caller)
                 /\ "member" \in calls
                 /\ reqOrganization = dataSources'[i].organizationId]_vars

====
